---- MODULE Spec2Model ----
(***************************************************************************)
(* A model of gemmi.py: the sequential file namer next_image_filename, the *)
(* prompt collection loop and the main script (credential check, prompt,   *)
(* provider call, resize, scan, save, exit status).                        *)
(*                                                                         *)
(* Text is modelled as a sequence of one-character strings, so that        *)
(* joining, stripping, regular-expression matching, int() and str() are    *)
(* computed rather than assumed.                                           *)
(***************************************************************************)
EXTENDS Integers, Sequences, FiniteSets, TLC

VARIABLES
    nDir,      \* namer harness: the entry names of the scanned directory
    nArgs,     \* namer harness: <<prefix, ext>> of the last call
    nResult,   \* namer harness: the filename the last call returned
    nPc,       \* namer harness: "idle" | "done"
    files,     \* the images/ directory: entry name -> file content
    runs,      \* number of program invocations started so far
    lastIdx,   \* index written by the latest successful invocation (0: none)
    proc       \* per process slot: the state of the invocation running in it

vars == <<nDir, nArgs, nResult, nPc, files, runs, lastIdx, proc>>

-----------------------------------------------------------------------------
(* Bounds of the model *)

MaxEntries == 3     \* entries in a directory handed to the namer harness
MaxStdin == 3       \* lines available on standard input before end-of-input
MaxRuns == 3        \* invocations of the program in one behaviour

-----------------------------------------------------------------------------
(* Characters and text *)

NL == "\n"

\* A decimal digit outside ASCII (ARABIC-INDIC DIGIT THREE, U+0663), standing
\* for all of them: Python's \d and int() accept every Unicode decimal digit.
ArabicThree == "U+0663"

AsciiDigits == <<"0", "1", "2", "3", "4", "5", "6", "7", "8", "9">>

\* re: \d on a str pattern
IsDigit(c) == c \in {AsciiDigits[i] : i \in 1..10} \cup {ArabicThree}

DigitVal(c) ==
    IF c = ArabicThree THEN 3
    ELSE (CHOOSE i \in 1..10 : AsciiDigits[i] = c) - 1

\* Whitespace characters that have no escape in a string are named by their
\* code point.
NoBreakSpace == "U+00A0"

\* The characters for which str.isspace() holds
Whitespace ==
    { "\t", NL, "U+000B", "\f", "\r", "U+001C", "U+001D", "U+001E", "U+001F",
      " ", "U+0085", NoBreakSpace, "U+1680", "U+2000", "U+2001", "U+2002",
      "U+2003", "U+2004", "U+2005", "U+2006", "U+2007", "U+2008", "U+2009",
      "U+200A", "U+2028", "U+2029", "U+202F", "U+205F", "U+3000" }

\* str.strip() with no argument strips the characters str.isspace() accepts
IsSpace(c) == c \in Whitespace

\* int(s) for a non-empty string of decimal digits (leading zeros allowed)
RECURSIVE IntOf(_)
IntOf(s) ==
    IF s = <<>> THEN 0
    ELSE IntOf(SubSeq(s, 1, Len(s) - 1)) * 10 + DigitVal(s[Len(s)])

\* str(n) for n >= 0
RECURSIVE StrOf(_)
StrOf(n) ==
    IF n < 10 THEN <<AsciiDigits[n + 1]>>
    ELSE StrOf(n \div 10) \o <<AsciiDigits[(n % 10) + 1]>>

Max(S) == CHOOSE x \in S : \A y \in S : y <= x

\* "\n".join(lines)
RECURSIVE Join(_)
Join(ls) ==
    IF ls = <<>> THEN <<>>
    ELSE IF Len(ls) = 1 THEN ls[1]
    ELSE ls[1] \o <<NL>> \o Join(Tail(ls))

RECURSIVE LStrip(_)
LStrip(s) == IF s # <<>> /\ IsSpace(s[1]) THEN LStrip(Tail(s)) ELSE s

RECURSIVE RStrip(_)
RStrip(s) ==
    IF s # <<>> /\ IsSpace(s[Len(s)]) THEN RStrip(SubSeq(s, 1, Len(s) - 1)) ELSE s

\* str.strip()
Strip(s) == RStrip(LStrip(s))

-----------------------------------------------------------------------------
(* next_image_filename *)

\* The positions at which "$" matches in fname (as the number of characters
\* before it): the end of the string, and just before a newline that is the
\* last character of the string.
DollarEnds(fname) ==
    {Len(fname)} \cup
    (IF Len(fname) > 0 /\ fname[Len(fname)] = NL THEN {Len(fname) - 1} ELSE {})

\* s is exactly prefix, then one or more digits, then ext
IsPrefixDigitsExt(prefix, ext, s) ==
    /\ Len(s) > Len(prefix) + Len(ext)
    /\ SubSeq(s, 1, Len(prefix)) = prefix
    /\ SubSeq(s, Len(s) - Len(ext) + 1, Len(s)) = ext
    /\ \A i \in (Len(prefix) + 1)..(Len(s) - Len(ext)) : IsDigit(s[i])

\* The set of values m.group(1) can take for
\* re.compile(rf"^{re.escape(prefix)}(\d+){re.escape(ext)}$").match(fname):
\* empty when there is no match.
MatchGroups(prefix, ext, fname) ==
    {SubSeq(fname, Len(prefix) + 1, e - Len(ext)) :
        e \in {k \in DollarEnds(fname) :
                 IsPrefixDigitsExt(prefix, ext, SubSeq(fname, 1, k))}}

\* The indices the scan loop feeds to max(): int(m.group(1)) of every entry
\* that matches.
ScannedIndices(entries, prefix, ext) ==
    {IntOf(g) : g \in UNION {MatchGroups(prefix, ext, f) : f \in entries}}

\* A namer that forgets the "+ 1".
NextImageFilenameNoIncrement(entries, prefix, ext) ==
    prefix \o StrOf(Max(ScannedIndices(entries, prefix, ext) \cup {0})) \o ext

\* A namer that counts the matching entries instead of taking their maximum.
NextImageFilenameByCount(entries, prefix, ext) ==
    prefix \o StrOf(Cardinality({f \in entries : MatchGroups(prefix, ext, f) # {}}) + 1)
           \o ext

NextImageFilename(entries, prefix, ext) ==
    LET max_index == Max(ScannedIndices(entries, prefix, ext) \cup {0})
        next_index == max_index + 1
    IN  prefix \o StrOf(next_index) \o ext

\* The defaults of next_image_filename's parameters
DefaultPrefix == <<"i", "m", "g">>
DefaultExt == <<".", "p", "n", "g">>

-----------------------------------------------------------------------------
(* Namer harness: a directory is filled entry by entry, then scanned once.  *)

Image == <<"i", "m", "a", "g", "e">>
Jpg == <<".", "j", "p", "g">>

\* Names a directory may hold: matching ones (also with leading zeros and a
\* non-ASCII digit), and ones with another prefix, another extension, a
\* non-numeric or empty middle, or characters before or after.
EntryNames ==
    { DefaultPrefix \o <<"1">> \o DefaultExt,
      DefaultPrefix \o <<"2">> \o DefaultExt,
      DefaultPrefix \o <<"0", "0", "7">> \o DefaultExt,
      DefaultPrefix \o <<"1", "0">> \o DefaultExt,
      DefaultPrefix \o <<ArabicThree>> \o DefaultExt,
      DefaultPrefix \o <<"X">> \o DefaultExt,
      DefaultPrefix \o DefaultExt,
      Image \o <<"2">> \o DefaultExt,
      DefaultPrefix \o <<"2">> \o Jpg,
      Image \o <<"4">> \o Jpg,
      DefaultPrefix \o <<"9">> \o DefaultExt \o <<NL>>,
      DefaultPrefix \o <<"5">> \o DefaultExt \o <<"x">>,
      <<"x">> \o DefaultPrefix \o <<"6">> \o DefaultExt,
      DefaultPrefix \o <<"8">> \o <<"x", "p", "n", "g">> }

ArgPrefixes == {DefaultPrefix, Image}
ArgExts == {DefaultExt, Jpg}

NamerIdle ==
    /\ nDir = {}
    /\ nArgs = <<>>
    /\ nResult = <<>>
    /\ nPc = "idle"

NamerAddEntry(f) ==
    /\ nPc = "idle"
    /\ Cardinality(nDir) < MaxEntries
    /\ f \notin nDir
    /\ nDir' = nDir \cup {f}
    /\ UNCHANGED <<nArgs, nResult, nPc, files, runs, lastIdx, proc>>

NamerCall(prefix, ext) ==
    /\ nPc = "idle"
    /\ nArgs' = <<prefix, ext>>
    /\ nResult' = NextImageFilename(nDir, prefix, ext)
    /\ nPc' = "done"
    /\ UNCHANGED <<nDir, files, runs, lastIdx, proc>>

-----------------------------------------------------------------------------
(* The program: configuration, environment and files *)

BANNER_WIDTH == 1200
BANNER_HEIGHT == 628

Procs == {1, 2}

\* os.environ / GEMINI_API_KEY.env: the variable is unset, or the file is
\* missing, or the file holds no assignment of the variable; every other
\* value is the text of the key.
Unset == "<unset>"
Missing == "<missing>"
NoAssignment == "<no assignment>"
EnvKeys == {Unset, "", "key-from-env"}
CredFiles == {Missing, NoAssignment, "", "key-from-file"}

\* load_dotenv(path) followed by os.getenv("GEMINI_API_KEY"): load_dotenv
\* does not override a variable the environment already holds, and does
\* nothing when the file is missing.
LoadedKey(env, file) ==
    IF env = Unset /\ file \notin {Missing, NoAssignment} THEN file ELSE env

\* "not API_KEY"
KeyIsFalsy(k) == k = Unset \/ k = ""

\* A check that only looks for None.
KeyIsNone(k) == k = Unset

Hello == <<"H", "e", "l", "l", "o">>
World == <<"W", "o", "r", "l", "d">>
InputLines == {<<>>, <<" ">>, <<"\f", NoBreakSpace>>, Hello, World}

RECURSIVE SeqsUpTo(_, _)
SeqsUpTo(S, n) ==
    IF n = 0 THEN {<<>>}
    ELSE LET r == SeqsUpTo(S, n - 1)
         IN  r \cup {Append(q, x) : q \in {t \in r : Len(t) = n - 1}, x \in S}

\* What standard input holds; end-of-input follows the last line.
Stdins == SeqsUpTo(InputLines, MaxStdin)

\* The sizes of the image the provider returns
ProviderSizes == {<<512, 512>>, <<BANNER_WIDTH, BANNER_HEIGHT>>}

ImageFile(size, by) == [w |-> size[1], h |-> size[2], by |-> by, complete |-> TRUE]
PartialFile(by) == [w |-> 0, h |-> 0, by |-> by, complete |-> FALSE]

ImgPng(digits) == DefaultPrefix \o digits \o DefaultExt

\* What the images directory may hold before the first invocation: nothing,
\* a full series, a series with a gap, a leading-zero index, a name with a
\* trailing newline, a name with another extension.
InitDirs ==
    { {},
      {ImgPng(<<"1">>), ImgPng(<<"2">>)},
      {ImgPng(<<"1">>), ImgPng(<<"3">>)},
      {ImgPng(<<"0", "0", "7">>)},
      {ImgPng(<<"2">>) \o <<NL>>},
      {ImgPng(<<"1">>), DefaultPrefix \o <<"9">> \o <<".", "j", "p", "g">>} }

IdleProc ==
    [ pc |-> "idle", id |-> 0, envKey |-> Unset, credFile |-> Missing,
      apiKey |-> Unset, stdin |-> <<>>, pos |-> 0, lines |-> <<>>,
      prompt |-> <<>>, prompted |-> FALSE, netCalls |-> 0, image |-> <<>>,
      filename |-> <<>>, savedAs |-> <<>>, exitCode |-> -1, cause |-> "",
      prevIdx |-> 0, startFiles |-> <<>>, scanNames |-> {} ]

ProgIdle ==
    /\ files = <<>>
    /\ runs = 0
    /\ lastIdx = 0
    /\ proc = [p \in Procs |-> IdleProc]

ProgInit ==
    /\ \E d \in InitDirs : files = [f \in d |-> ImageFile(<<BANNER_WIDTH, BANNER_HEIGHT>>, 0)]
    /\ runs = 0
    /\ lastIdx = 0
    /\ proc = [p \in Procs |-> IdleProc]

\* The status the process ends with when the script ends with `code`: the
\* interpreter flushes standard output at shutdown, and a flush that fails
\* there (a full device, a closed pipe) replaces the status by 120.
ExitStatuses(code) == {code, 120}

\* sys.exit(code), the script running off its end (code 0), or the
\* interpreter ending on an uncaught exception (code 1)
Exit(p, code, why) ==
    \E status \in ExitStatuses(code) :
        proc' = [proc EXCEPT ![p].pc = "exited", ![p].exitCode = status,
                             ![p].cause = why]

\* The digits of a name the program wrote, as an integer
WrittenIndex(name) ==
    IntOf(SubSeq(name, Len(DefaultPrefix) + 1, Len(name) - Len(DefaultExt)))

-----------------------------------------------------------------------------
(* The program's steps, for the invocation in process slot p *)

\* A new invocation: its environment, credential file and standard input.
StartRun(p, env, file, input) ==
    /\ proc[p].pc = "idle"
    /\ runs < MaxRuns
    /\ runs' = runs + 1
    /\ proc' = [proc EXCEPT ![p] =
                   [IdleProc EXCEPT !.pc = "start", !.id = runs + 1,
                                    !.envKey = env, !.credFile = file,
                                    !.stdin = input, !.prevIdx = lastIdx,
                                    !.startFiles = files]]
    /\ UNCHANGED <<nDir, nArgs, nResult, nPc, files, lastIdx>>

\* A credential check that lets an empty key through.
LoadKeyNoneOnly(p) ==
    /\ proc[p].pc = "start"
    /\ LET key == LoadedKey(proc[p].envKey, proc[p].credFile)
       IN  IF KeyIsNone(key)
           THEN \E status \in ExitStatuses(1) :
                  proc' = [proc EXCEPT ![p].apiKey = key, ![p].pc = "exited",
                                       ![p].exitCode = status,
                                       ![p].cause = "credential"]
           ELSE proc' = [proc EXCEPT ![p].apiKey = key, ![p].pc = "read",
                                     ![p].prompted = TRUE]
    /\ UNCHANGED <<nDir, nArgs, nResult, nPc, files, runs, lastIdx>>

\* 1) Load API key; on success print the request for the prompt.
LoadKey(p) ==
    /\ proc[p].pc = "start"
    /\ LET key == LoadedKey(proc[p].envKey, proc[p].credFile)
       IN  IF KeyIsFalsy(key)
           THEN \E status \in ExitStatuses(1) :
                  proc' = [proc EXCEPT ![p].apiKey = key, ![p].pc = "exited",
                                       ![p].exitCode = status,
                                       ![p].cause = "credential"]
           ELSE proc' = [proc EXCEPT ![p].apiKey = key, ![p].pc = "read",
                                     ![p].prompted = TRUE]
    /\ UNCHANGED <<nDir, nArgs, nResult, nPc, files, runs, lastIdx>>

\* print("Enter your image prompt ...") raises (standard output is broken):
\* the call is outside the try block, so the exception is uncaught.
PromptPrintFail(p) ==
    /\ proc[p].pc = "start"
    /\ ~KeyIsFalsy(LoadedKey(proc[p].envKey, proc[p].credFile))
    /\ \E status \in ExitStatuses(1) :
          proc' = [proc EXCEPT
                     ![p].apiKey = LoadedKey(proc[p].envKey, proc[p].credFile),
                     ![p].pc = "exited", ![p].exitCode = status,
                     ![p].cause = "print"]
    /\ UNCHANGED <<nDir, nArgs, nResult, nPc, files, runs, lastIdx>>

\* A loop that also stops at a line of whitespace.
ReadLineStopAtBlank(p) ==
    /\ proc[p].pc = "read"
    /\ proc[p].pos < Len(proc[p].stdin)
    /\ LET line == proc[p].stdin[proc[p].pos + 1]
       IN  IF Strip(line) = <<>>
           THEN proc' = [proc EXCEPT ![p].pos = @ + 1, ![p].pc = "check"]
           ELSE proc' = [proc EXCEPT ![p].pos = @ + 1,
                                     ![p].lines = Append(@, line)]
    /\ UNCHANGED <<nDir, nArgs, nResult, nPc, files, runs, lastIdx>>

\* 2) One pass of the input loop: line = input(); break on an empty line,
\* else lines.append(line).
ReadLine(p) ==
    /\ proc[p].pc = "read"
    /\ proc[p].pos < Len(proc[p].stdin)
    /\ LET line == proc[p].stdin[proc[p].pos + 1]
       IN  IF line = <<>>
           THEN proc' = [proc EXCEPT ![p].pos = @ + 1, ![p].pc = "check"]
           ELSE proc' = [proc EXCEPT ![p].pos = @ + 1,
                                     ![p].lines = Append(@, line)]
    /\ UNCHANGED <<nDir, nArgs, nResult, nPc, files, runs, lastIdx>>

\* input() at end-of-input raises EOFError; the loop is outside the try
\* block, so the exception is uncaught: traceback, exit status 1.
ReadEOF(p) ==
    /\ proc[p].pc = "read"
    /\ proc[p].pos = Len(proc[p].stdin)
    /\ Exit(p, 1, "EOFError")
    /\ UNCHANGED <<nDir, nArgs, nResult, nPc, files, runs, lastIdx>>

\* A check of the prompt before it is stripped.
CheckPromptUnstripped(p) ==
    /\ proc[p].pc = "check"
    /\ LET text == Join(proc[p].lines)
       IN  IF text = <<>>
           THEN \E status \in ExitStatuses(1) :
                  proc' = [proc EXCEPT ![p].prompt = Strip(text), ![p].pc = "exited",
                                       ![p].exitCode = status,
                                       ![p].cause = "empty prompt"]
           ELSE proc' = [proc EXCEPT ![p].prompt = Strip(text), ![p].pc = "generate"]
    /\ UNCHANGED <<nDir, nArgs, nResult, nPc, files, runs, lastIdx>>

\* prompt = "\n".join(lines).strip(); exit 1 when it is empty.
CheckPrompt(p) ==
    /\ proc[p].pc = "check"
    /\ LET text == Strip(Join(proc[p].lines))
       IN  IF text = <<>>
           THEN \E status \in ExitStatuses(1) :
                  proc' = [proc EXCEPT ![p].prompt = text, ![p].pc = "exited",
                                       ![p].exitCode = status,
                                       ![p].cause = "empty prompt"]
           ELSE proc' = [proc EXCEPT ![p].prompt = text, ![p].pc = "generate"]
    /\ UNCHANGED <<nDir, nArgs, nResult, nPc, files, runs, lastIdx>>

\* print("Generating image...") raises inside the try block (the text holds
\* U+2026, which the encoding of standard output may lack, or standard
\* output is broken): caught by the script's handler, exit 1. No request
\* has been sent.
GeneratingPrintFail(p) ==
    /\ proc[p].pc = "generate"
    /\ Exit(p, 1, "print")
    /\ UNCHANGED <<nDir, nArgs, nResult, nPc, files, runs, lastIdx>>

\* GeminiImageGenerator(api_key) raises: logged, re-raised, caught by the
\* script's handler, exit 1. No request has been sent.
ClientFail(p) ==
    /\ proc[p].pc = "generate"
    /\ Exit(p, 1, "client")
    /\ UNCHANGED <<nDir, nArgs, nResult, nPc, files, runs, lastIdx>>

\* generate_image: the request is sent and the response holds an image.
GenerateOk(p, size) ==
    /\ proc[p].pc = "generate"
    /\ proc' = [proc EXCEPT ![p].netCalls = @ + 1, ![p].image = size,
                            ![p].pc = "resize"]
    /\ UNCHANGED <<nDir, nArgs, nResult, nPc, files, runs, lastIdx>>

\* generate_image: the request fails, the response holds no image, or the
\* image does not decode: logged, re-raised, caught, exit 1.
GenerateFail(p, why) ==
    /\ proc[p].pc = "generate"
    /\ \E status \in ExitStatuses(1) :
          proc' = [proc EXCEPT ![p].netCalls = @ + 1, ![p].pc = "exited",
                               ![p].exitCode = status, ![p].cause = why]
    /\ UNCHANGED <<nDir, nArgs, nResult, nPc, files, runs, lastIdx>>

\* 3) image.resize((BANNER_WIDTH, BANNER_HEIGHT), Image.LANCZOS)
Resize(p) ==
    /\ proc[p].pc = "resize"
    /\ proc' = [proc EXCEPT ![p].image = <<BANNER_WIDTH, BANNER_HEIGHT>>,
                            ![p].pc = "scan"]
    /\ UNCHANGED <<nDir, nArgs, nResult, nPc, files, runs, lastIdx>>

\* image.resize raises inside the try block (the image data is decoded
\* lazily and may be truncated, or memory runs out): caught by the script's
\* handler, exit 1. The request has been sent; no file has been named or
\* written.
ResizeFail(p) ==
    /\ proc[p].pc = "resize"
    /\ Exit(p, 1, "resize")
    /\ UNCHANGED <<nDir, nArgs, nResult, nPc, files, runs, lastIdx>>

\* 4) filename = next_image_filename()
Scan(p) ==
    /\ proc[p].pc = "scan"
    /\ proc' = [proc EXCEPT
                  ![p].filename = NextImageFilename(DOMAIN files, DefaultPrefix, DefaultExt),
                  ![p].scanNames = DOMAIN files,
                  ![p].pc = "save"]
    /\ UNCHANGED <<nDir, nArgs, nResult, nPc, files, runs, lastIdx>>

\* os.makedirs or os.listdir raises in next_image_filename: caught, exit 1.
ScanFail(p) ==
    /\ proc[p].pc = "scan"
    /\ Exit(p, 1, "scan")
    /\ UNCHANGED <<nDir, nArgs, nResult, nPc, files, runs, lastIdx>>

\* A save that names the file from the directory as it is when it writes.
SaveOkRescan(p) ==
    /\ proc[p].pc = "save"
    /\ LET name == NextImageFilename(DOMAIN files, DefaultPrefix, DefaultExt)
       IN  /\ files' = (name :> ImageFile(proc[p].image, proc[p].id)) @@ files
           /\ lastIdx' = WrittenIndex(name)
           /\ proc' = [proc EXCEPT ![p].savedAs = name, ![p].pc = "report"]
    /\ UNCHANGED <<nDir, nArgs, nResult, nPc, runs>>

\* gen.save_image(image, filename): image.save(path) opens images/<filename>
\* for writing, creating or truncating it, and writes the image.
SaveOk(p) ==
    /\ proc[p].pc = "save"
    /\ LET name == proc[p].filename
       IN  /\ files' = (name :> ImageFile(proc[p].image, proc[p].id)) @@ files
           /\ lastIdx' = WrittenIndex(name)
           /\ proc' = [proc EXCEPT ![p].savedAs = name, ![p].pc = "report"]
    /\ UNCHANGED <<nDir, nArgs, nResult, nPc, runs>>

\* A save failure that is logged and not re-raised.
SaveFailSwallowed(p, stage) ==
    /\ proc[p].pc = "save"
    /\ proc' = [proc EXCEPT ![p].pc = "report"]
    /\ UNCHANGED <<nDir, nArgs, nResult, nPc, files, runs, lastIdx>>

\* save_image raises: logged, re-raised, caught, exit 1. At stage "open"
\* (os.makedirs, or opening the file) nothing has been written. At stage
\* "write" the file has been opened: Image.save removes a file it created
\* and leaves a file that existed before, now truncated, in place.
SaveFail(p, stage) ==
    /\ proc[p].pc = "save"
    /\ LET name == proc[p].filename
       IN  files' = IF stage = "write" /\ name \in DOMAIN files
                    THEN (name :> PartialFile(proc[p].id)) @@ files
                    ELSE files
    /\ Exit(p, 1, "save")
    /\ UNCHANGED <<nDir, nArgs, nResult, nPc, runs, lastIdx>>

\* print("Saved as ...") returns and the script runs off its end.
Report(p) ==
    /\ proc[p].pc = "report"
    /\ Exit(p, 0, "")
    /\ UNCHANGED <<nDir, nArgs, nResult, nPc, files, runs, lastIdx>>

\* The process is gone; its slot is free for a later invocation.
Reap(p) ==
    /\ proc[p].pc = "exited"
    /\ proc' = [proc EXCEPT ![p] = IdleProc]
    /\ UNCHANGED <<nDir, nArgs, nResult, nPc, files, runs, lastIdx>>

\* print("Saved as ...") raises inside the try block (the text holds U+00D7,
\* which the encoding of standard output may lack, or standard output is
\* broken): caught by the script's handler, exit 1, after the image file
\* has been written.
ReportPrintFail(p) ==
    /\ proc[p].pc = "report"
    /\ Exit(p, 1, "print")
    /\ UNCHANGED <<nDir, nArgs, nResult, nPc, files, runs, lastIdx>>

ProviderFailures == {"transport", "no image", "decode"}
SaveStages == {"open", "write"}

Step(p) ==
    \/ LoadKey(p)
    \/ PromptPrintFail(p)
    \/ ReadLine(p)
    \/ ReadEOF(p)
    \/ CheckPrompt(p)
    \/ GeneratingPrintFail(p)
    \/ ClientFail(p)
    \/ \E size \in ProviderSizes : GenerateOk(p, size)
    \/ \E why \in ProviderFailures : GenerateFail(p, why)
    \/ Resize(p)
    \/ ResizeFail(p)
    \/ Scan(p)
    \/ ScanFail(p)
    \/ SaveOk(p)
    \/ \E stage \in SaveStages : SaveFail(p, stage)
    \/ Report(p)
    \/ ReportPrintFail(p)

-----------------------------------------------------------------------------
(* Specifications *)

\* The namer on its own: any directory of at most MaxEntries entries.
NamerInit == NamerIdle /\ ProgIdle

NamerNext ==
    \/ \E f \in EntryNames : NamerAddEntry(f)
    \/ \E prefix \in ArgPrefixes, ext \in ArgExts : NamerCall(prefix, ext)

NamerSpec == NamerInit /\ [][NamerNext]_vars

\* Invocations that do not overlap in time: one process slot, reused.
Init == NamerIdle /\ ProgInit

Next ==
    \/ /\ proc[1].pc = "idle"
       /\ \E env \in EnvKeys, file \in CredFiles, input \in Stdins :
             StartRun(1, env, file, input)
    \/ Step(1)
    \/ Reap(1)

Spec == Init /\ [][Next]_vars

\* Two invocations running at once against the same images directory, one
\* in each process slot. The credential file holds an empty key, so the
\* environment decides; the input is a prompt, an empty prompt or nothing.
ConcStdins == {<<>>, <<<<>>>>, <<Hello, <<>>>>}

ConcNext ==
    \/ \E p \in Procs, env \in {Unset, "key-from-env"}, input \in ConcStdins :
          StartRun(p, env, "", input)
    \/ \E p \in Procs : Step(p)

ConcSpec == Init /\ [][ConcNext]_vars

-----------------------------------------------------------------------------
(* Vocabulary of the properties *)

\* The integer values of the digit parts of the entries whose whole name is
\* exactly prefix, one or more decimal digits, ext.
ExactIndices(entries, prefix, ext) ==
    {IntOf(SubSeq(f, Len(prefix) + 1, Len(f) - Len(ext))) :
        f \in {g \in entries : IsPrefixDigitsExt(prefix, ext, g)}}

\* prefix + str(m + 1) + ext for the maximum m of ExactIndices (0 if none)
NameAfterExactMax(entries, prefix, ext) ==
    prefix \o StrOf(Max(ExactIndices(entries, prefix, ext) \cup {0}) + 1) \o ext

HasEmptyLine(input) == \E i \in 1..Len(input) : input[i] = <<>>

FirstEmpty(input) ==
    CHOOSE i \in 1..Len(input) :
        input[i] = <<>> /\ \A j \in 1..(i - 1) : input[j] # <<>>

OnlyWhitespace(line) ==
    \A j \in 1..Len(line) : line[j] \in {" ", "\t", "\f", NoBreakSpace}

\* The invocation in slot p has left the input loop (it was entered).
LoopLeft(p) == proc[p].prompted /\ proc[p].pc # "read"

\* The files of the directory written by the invocation in slot p
FilesBy(p) == {f \in DOMAIN files : files[f].by = proc[p].id}

Banner == <<BANNER_WIDTH, BANNER_HEIGHT>>

-----------------------------------------------------------------------------
(* Properties *)

\* C1: the namer returns prefix + str(m+1) + ext, m being the maximum digit
\* value over the entries that are exactly prefix, digits, ext (0 if none);
\* every other entry leaves the result unchanged.
C1_NextIsExactMaxPlusOne ==
    nPc = "done" =>
        nResult = NameAfterExactMax(nDir, nArgs[1], nArgs[2])

\* C2: the filename the namer returns is not the name of any entry the
\* directory held at the scan.
C2_ResultNotInDirectory ==
    nPc = "done" => nResult \notin nDir

\* C2 witness: a leading-zero entry and non-matching entries, and img8.png
\* returned.
C2_Witness ==
    /\ nPc = "done"
    /\ nArgs = <<DefaultPrefix, DefaultExt>>
    /\ nDir = {ImgPng(<<"0", "0", "7">>), DefaultPrefix \o <<"X">> \o DefaultExt,
               DefaultPrefix \o <<"2">> \o Jpg}
    /\ nResult = ImgPng(<<"8">>)

\* C3: a finished run has either written exactly one complete 1200x628 image
\* under the next sequential filename of the directory it started with, or
\* left the directory as it was.
C3_CompleteImageUnderNextNameOrNothing ==
    proc[1].pc = "exited" =>
        LET before == proc[1].startFiles
            name == NameAfterExactMax(DOMAIN before, DefaultPrefix, DefaultExt)
        IN  \/ files = before
            \/ /\ name \notin DOMAIN before
               /\ files = (name :> ImageFile(Banner, proc[1].id)) @@ before

\* C4 as stated: exit status 0 exactly when the run wrote its image file;
\* every failure (credential, empty prompt, provider, transport, save) exits
\* non-zero.
C4_ExitZeroIffWrote ==
    proc[1].pc = "exited" =>
        /\ proc[1].exitCode = 0 <=>
               \E f \in FilesBy(1) : files[f] = ImageFile(Banner, proc[1].id)
        /\ proc[1].cause # "" => proc[1].exitCode # 0

\* C4 amended: exit status 0 only when the run wrote its image file (after
\* a non-empty prompt, one provider call, resize, scan and save); every
\* failure exits non-zero; and a run that wrote its image file exits
\* non-zero only when writing to standard output failed: the final print
\* raised (status 1) or the flush at shutdown failed (status 120).
C4_ExitZeroOnlyIfWrote ==
    proc[1].pc = "exited" =>
        /\ proc[1].exitCode = 0 =>
               /\ \E f \in FilesBy(1) : files[f] = ImageFile(Banner, proc[1].id)
               /\ proc[1].cause = ""
               /\ proc[1].netCalls = 1
               /\ proc[1].prompt # <<>>
               /\ ~KeyIsFalsy(proc[1].apiKey)
        /\ proc[1].cause # "" => proc[1].exitCode # 0
        /\ (FilesBy(1) # {} /\ proc[1].exitCode # 0) =>
               /\ proc[1].cause = "print" \/ proc[1].exitCode = 120
               /\ \A f \in FilesBy(1) : files[f] = ImageFile(Banner, proc[1].id)

\* C4 witness: img1.png and img2.png present; the run saved img3.png at
\* 1200x628 and exited 0.
C4_Witness ==
    /\ proc[1].pc = "exited"
    /\ proc[1].exitCode = 0
    /\ DOMAIN proc[1].startFiles = {ImgPng(<<"1">>), ImgPng(<<"2">>)}
    /\ proc[1].savedAs = ImgPng(<<"3">>)
    /\ ImgPng(<<"3">>) \in DOMAIN files
    /\ files[ImgPng(<<"3">>)].w = 1200
    /\ files[ImgPng(<<"3">>)].h = 628

\* C5 as stated: with the credential file missing, the process exits
\* non-zero before any prompt is requested and before any network call,
\* whatever the process environment holds.
C5_MissingFileExitsBeforePrompt ==
    (proc[1].pc # "idle" /\ proc[1].credFile = Missing) =>
        /\ ~proc[1].prompted
        /\ proc[1].netCalls = 0
        /\ proc[1].pc \in {"start", "exited"}
        /\ proc[1].pc = "exited" => proc[1].exitCode # 0

\* C5 amended: with the credential file missing and no non-empty
\* GEMINI_API_KEY in the process environment, the process exits non-zero
\* before any prompt is requested and before any network call.
C5_NoKeyExitsBeforePrompt ==
    (/\ proc[1].pc # "idle"
     /\ proc[1].credFile = Missing
     /\ proc[1].envKey \in {Unset, ""}) =>
        /\ ~proc[1].prompted
        /\ proc[1].netCalls = 0
        /\ proc[1].pc \in {"start", "exited"}
        /\ proc[1].pc = "exited" => proc[1].exitCode # 0

\* C5 witness: file missing, the variable set to the empty string, exit 1.
C5_Witness ==
    /\ proc[1].pc = "exited"
    /\ proc[1].credFile = Missing
    /\ proc[1].envKey = ""
    /\ proc[1].exitCode = 1
    /\ ~proc[1].prompted

\* C6: when the loop ended at an empty line and every line before it is
\* whitespace only (or there is none), the run fails with a non-zero exit,
\* makes no network call and writes no file.
C6_EmptyPromptFailsWithoutCallOrFile ==
    (/\ LoopLeft(1)
     /\ proc[1].pos > 0
     /\ proc[1].stdin[proc[1].pos] = <<>>
     /\ \A i \in 1..(proc[1].pos - 1) : OnlyWhitespace(proc[1].stdin[i])) =>
        /\ proc[1].pc \in {"check", "exited"}
        /\ proc[1].netCalls = 0
        /\ files = proc[1].startFiles
        /\ proc[1].pc = "exited" =>
               proc[1].exitCode # 0 /\ proc[1].cause = "empty prompt"

\* C6 witness: a whitespace-only line, then the empty line; exit 1.
C6_Witness ==
    /\ proc[1].pc = "exited"
    /\ proc[1].cause = "empty prompt"
    /\ proc[1].lines = << <<" ">> >>
    /\ proc[1].pos = 2
    /\ proc[1].netCalls = 0

\* C7: with an empty line in the input, the loop reads up to and including
\* the first empty line and no further, and the prompt is the lines before
\* it, in order, joined with a newline and stripped (Hello, World, empty
\* give "Hello\nWorld").
C7_PromptIsLinesBeforeFirstEmpty ==
    (proc[1].prompted /\ HasEmptyLine(proc[1].stdin)) =>
        LET k == FirstEmpty(proc[1].stdin)
            head == SubSeq(proc[1].stdin, 1, k - 1)
        IN  /\ proc[1].pos <= k
            /\ proc[1].cause # "EOFError"
            /\ LoopLeft(1) => (proc[1].pos = k /\ proc[1].lines = head)
            /\ (LoopLeft(1) /\ proc[1].pc # "check") =>
                   /\ proc[1].prompt = Strip(Join(head))
                   /\ head = <<Hello, World>> =>
                          proc[1].prompt = Hello \o <<NL>> \o World
                   /\ head = << <<" ">>, World, <<" ">> >> =>
                          proc[1].prompt = World

\* C7 witness: Hello, World, empty line collected as "Hello\nWorld".
C7_Witness ==
    /\ proc[1].pc = "generate"
    /\ proc[1].stdin = <<Hello, World, <<>>>>
    /\ proc[1].prompt = Hello \o <<NL>> \o World

\* C8 (its first case): end-of-input ends the prompt like an empty line:
\* when the input ends after one or more lines that make a non-empty prompt,
\* without an empty line, those lines joined and stripped are the prompt
\* and the run goes on to the provider call.
C8_EndOfInputEndsThePrompt ==
    (/\ LoopLeft(1)
     /\ ~HasEmptyLine(proc[1].stdin)
     /\ Strip(Join(proc[1].stdin)) # <<>>) =>
        /\ proc[1].cause # "EOFError"
        /\ proc[1].lines = proc[1].stdin
        /\ proc[1].pc # "check" => proc[1].prompt = Strip(Join(proc[1].stdin))
        /\ proc[1].pc = "exited" => proc[1].cause # "empty prompt"

\* C9: nothing between scan and write protects the name: a process writes
\* the name its own scan computed, whatever the directory holds by then, and
\* when two processes saved under one name a single file is left of the two.
C9_WritesTheNameItScanned ==
    /\ \A p \in Procs :
          proc[p].savedAs # <<>> =>
              /\ proc[p].savedAs = proc[p].filename
              /\ proc[p].savedAs \notin proc[p].scanNames
              /\ proc[p].savedAs \in DOMAIN files
    /\ \A p, q \in Procs :
          (p # q /\ proc[p].savedAs # <<>> /\ proc[p].savedAs = proc[q].savedAs) =>
              /\ proc[p].scanNames = proc[q].scanNames
              /\ Cardinality(FilesBy(p) \cup FilesBy(q)) = 1

\* C9 witness: both processes scanned the same listing, both saved under the
\* same name and exited 0; the file is the second's, the first's is gone.
C9_Witness ==
    /\ proc[1].pc = "exited" /\ proc[1].exitCode = 0
    /\ proc[2].pc = "exited" /\ proc[2].exitCode = 0
    /\ proc[1].scanNames = proc[2].scanNames
    /\ proc[1].savedAs = proc[2].savedAs
    /\ proc[1].id < proc[2].id
    /\ files[proc[1].savedAs] = ImageFile(Banner, proc[2].id)
    /\ FilesBy(1) = {}

\* C10: over runs that do not overlap, no run changes or removes a file that
\* existed when it started, a run adds at most one file and a successful run
\* exactly one, the index written is above the one the previous successful
\* run wrote, and above every index present at the start (no gap is filled).
C10_RunsNeverReuseAnIndex ==
    proc[1].pc # "idle" =>
        LET before == proc[1].startFiles
            new == DOMAIN files \ DOMAIN before
        IN  /\ \A f \in DOMAIN before : f \in DOMAIN files /\ files[f] = before[f]
            /\ Cardinality(new) <= 1
            /\ (proc[1].pc = "exited" /\ proc[1].exitCode = 0) => Cardinality(new) = 1
            /\ \A f \in new :
                  /\ IsPrefixDigitsExt(DefaultPrefix, DefaultExt, f)
                  /\ WrittenIndex(f) > proc[1].prevIdx
                  /\ \A i \in ExactIndices(DOMAIN before, DefaultPrefix, DefaultExt) :
                        WrittenIndex(f) > i

\* C10 witness: the directory started as img1.png, img3.png; the first run
\* wrote img4.png, the second failed and the third wrote img5.png.
C10_Witness ==
    /\ runs = 3
    /\ proc[1].id = 3
    /\ proc[1].pc = "exited" /\ proc[1].exitCode = 0
    /\ proc[1].prevIdx = 4
    /\ proc[1].savedAs = ImgPng(<<"5">>)
    /\ DOMAIN files = {ImgPng(<<"1">>), ImgPng(<<"3">>), ImgPng(<<"4">>), ImgPng(<<"5">>)}

====
